---- MODULE Spec2Model ----
(***************************************************************************)
(* Reminder scheduling and persistence of the WhatsApp reminder bot        *)
(* (src/index.js): the reminders.json file, the node-schedule jobs, the    *)
(* command handler, the fire callback and the startup rescheduling.        *)
(*                                                                         *)
(* Time is a counter of ticks; a calendar day has TicksPerDay ticks and    *)
(* tick NineAM of a day is 09:00:00.000 local time.  JavaScript runs each  *)
(* handler to completion, so a handler is one action; the only suspension  *)
(* point of the code that matters here is `await client.sendMessage` in    *)
(* the job callback, which splits the callback in two steps.               *)
(*                                                                         *)
(* History variables (never read by a modelled code path): the field n of  *)
(* records and registrations (ordinal of the create that accepted the      *)
(* reminder), nCreated, sendCount, expired, and lastOp, which names the    *)
(* handler that ran in the last step when it was a create command (by its  *)
(* outcome), the end of a job callback or a rescheduling, and is Idle      *)
(* after any other step.                                                   *)
(***************************************************************************)
EXTENDS Integers, Sequences, FiniteSets, Bags, TLC

\* ---------------------------------------------------------------- bounds
\* the last calendar day of the clock and of the event dates
MaxDay == 2
\* the number of create commands that are accepted
MaxCreates == 2
\* repeated 'ready' events stop when jobs plus records exceed this
MaxTimers == 3
\* ticks of a calendar day: tick 0 of a day is 00:00, tick NineAM is 09:00
\* and the last tick is in the evening
TicksPerDay == 3
NineAM == 1

\* the clock stops at the last instant a reminder can be due: 09:00 of the
\* day before the last event day
MaxTime == (MaxDay - 1) * TicksPerDay + NineAM
Chats == {"g1", "g2"}
Subjects == {"a"}
\* the event dates a command can name: the start of day 0 .. MaxDay
EventTimes == {d * TicksPerDay : d \in 0..MaxDay}
NoId == <<>>

\* The outcome of chrono.parse(commandText) and of removing the matched
\* date text from the command: no match at all, or the first match's date
\* together with what is left of the text ("" when nothing is left).
Commands ==
  [hasDate : {FALSE}, date : {0}, rest : {""}]
    \cup [hasDate : {TRUE}, date : EventTimes, rest : Subjects \cup {""}]

\* the same commands naming any instant of day 0 .. MaxDay
CommandsAnyTime ==
  [hasDate : {TRUE}, date : 0 .. (MaxDay * TicksPerDay + TicksPerDay - 1),
   rest : Subjects]

VARIABLES now, phase, fileExists, fileIsArray, store, timers, inflight,
          nCreated, sendCount, expired, lastOp

vars == <<now, phase, fileExists, fileIsArray, store, timers, inflight,
          nCreated, sendCount, expired, lastOp>>

\* ------------------------------------------------------- pure functions
\* `reminder_${chatId}_${date.getTime()}`
jobId(chatId, date) == <<"reminder", chatId, date>>

\* one day before the parsed date, at 9:00 AM
remindAtOfM(parsedDate) == parsedDate - TicksPerDay + NineAM
remindAtOf(parsedDate) ==
  ((parsedDate \div TicksPerDay) - 1) * TicksPerDay + NineAM

\* the rendered notification text
reminderMessageOf(subject) == <<"REMINDER", "Tomorrow", subject>>

\* if (remindAt < new Date()) -> rejected
IsPast(remindAt, t) == remindAt < t

\* if (remindAt > now) -> rescheduled and kept
IsFutureM(remindAt, t) == remindAt >= t
IsFuture(remindAt, t) == remindAt > t

\* the classification of a create command
Outcome(cmd, t) ==
  IF ~cmd.hasDate THEN "ParseFailure"
  ELSE IF cmd.rest = "" THEN "MissingSubject"
  ELSE IF IsPast(remindAtOf(cmd.date), t) THEN "Rejected"
  ELSE "Created"

\* the record handleCommand pushes
newReminder(chatId, cmd, n) ==
  [id |-> jobId(chatId, remindAtOf(cmd.date)),
   chatId |-> chatId,
   reminderMessage |-> reminderMessageOf(cmd.rest),
   remindAt |-> remindAtOf(cmd.date),
   originalSubject |-> cmd.rest,
   originalDate |-> cmd.date,
   n |-> n]

\* ------------------------------------------------------------ the file
\* loadReminders: the parsed array, [] when the file does not exist
loadReminders(exists, content) == IF exists THEN content ELSE <<>>

\* loadReminders with the outcome rd of its file access: what it returns
\* when that is an array ([] when the access failed or the JSON did not
\* parse) ...
Loaded(rd, exists, isArray, content) ==
  IF rd /\ isArray THEN loadReminders(exists, content) ELSE <<>>

\* ... whether what it returns is an array: JSON.parse hands back whatever
\* JSON value the file holds
LoadsArrayM(rd, exists, isArray) == exists /\ (rd => isArray)
LoadsArray(rd, exists, isArray) == ~(exists /\ rd /\ ~isArray)

\* ... and whether the file exists afterwards: a missing file is created
\* holding []
ExistsAfterLoad(rd, exists) == exists \/ rd

\* removeReminder's filter
WithoutId(recs, id) == SelectSeq(recs, LAMBDA r : r.id # id)

\* ------------------------------------------------------- the scheduler
\* schedule.scheduleJob(name, date, callback): node-schedule creates a new
\* Job with one pending invocation when the date is not in the past.  A job
\* of the same name that is still pending keeps its invocation.
scheduleJob(tm, reg, t) ==
  IF reg.date >= t THEN tm (+) SetToBag({reg}) ELSE tm

Registration(chatId, message, date, n) ==
  [id |-> jobId(chatId, date), chatId |-> chatId, message |-> message,
   date |-> date, n |-> n]

scheduleNewReminder(tm, chatId, message, date, n, t) ==
  scheduleJob(tm, Registration(chatId, message, date, n), t)

\* the timers after a create command with the given outcome
TimersAfterCommand(tm, chatId, cmd, n, t) ==
  IF Outcome(cmd, t) = "Created"
  THEN scheduleNewReminder(tm, chatId, reminderMessageOf(cmd.rest),
                           remindAtOf(cmd.date), n, t)
  ELSE tm

\* the file content after a create command
StoreAfterCommandM(exists, content, chatId, cmd, n, t) ==
  IF Outcome(cmd, t) \in {"Created", "Rejected"}
  THEN Append(loadReminders(exists, content), newReminder(chatId, cmd, n))
  ELSE content
StoreAfterCommand(exists, content, chatId, cmd, n, t) ==
  IF Outcome(cmd, t) = "Created"
  THEN Append(loadReminders(exists, content), newReminder(chatId, cmd, n))
  ELSE content

\* rescheduleReminders' loop: validReminders
validRemindersM(recs, t) == recs
validReminders(recs, t) ==
  SelectSeq(recs, LAMBDA r : IsFuture(r.remindAt, t))

\* rescheduleReminders' loop: the registration made for a kept record
RegistrationOfM(r) ==
  Registration(r.chatId, r.originalSubject, r.remindAt, r.n)
RegistrationOf(r) ==
  Registration(r.chatId, r.reminderMessage, r.remindAt, r.n)

RECURSIVE rescheduleJobs(_, _, _)
rescheduleJobs(tm, recs, t) ==
  IF recs = <<>> THEN tm
  ELSE LET r == Head(recs)
           tm1 == IF IsFuture(r.remindAt, t)
                  THEN scheduleJob(tm, RegistrationOf(r), t)
                  ELSE tm
       IN rescheduleJobs(tm1, Tail(recs), t)

Last(s) == s[Len(s)]

\* listReminders: the records of the chat, sorted by remindAt.  The sort
\* of Array.prototype.sort is stable.
RECURSIVE InsertByDate(_, _)
InsertByDate(sorted, r) ==
  IF sorted = <<>> THEN <<r>>
  ELSE IF r.remindAt < Head(sorted).remindAt THEN <<r>> \o sorted
  ELSE <<Head(sorted)>> \o InsertByDate(Tail(sorted), r)

RECURSIVE SortByDate(_)
SortByDate(recs) ==
  IF recs = <<>> THEN <<>>
  ELSE InsertByDate(SortByDate(SubSeq(recs, 1, Len(recs) - 1)), Last(recs))

listRemindersM(recs, chatId) ==
  SelectSeq(recs, LAMBDA r : r.chatId = chatId)
listReminders(recs, chatId) ==
  SortByDate(SelectSeq(recs, LAMBDA r : r.chatId = chatId))

\* ---------------------------------------------------------- helpers
Recs(s) == {s[i] : i \in 1..Len(s)}
StoreIds == {r.id : r \in Recs(store)}
TimerIds == {r.id : r \in BagToSet(timers)}
StoreNs == {r.n : r \in Recs(store)}
TimerNs == {r.n : r \in BagToSet(timers)}
InflightNs == {r.n : r \in BagToSet(inflight)}

OpF(op, id, n, rd) == [op |-> op, id |-> id, n |-> n, readOk |-> rd]
Op(op, id, n) == OpF(op, id, n, TRUE)
ListOp(chatId, reply, rd) ==
  [op |-> "list", id |-> NoId, n |-> 0, readOk |-> rd,
   chatId |-> chatId, reply |-> reply]
Idle == Op("", NoId, 0)
FileCreated == <<"fileCreated">>

\* ---------------------------------------------------------------- Init
\* The process has just been started for the first time: the client is not
\* ready yet, no job exists, reminders.json is either absent or holds [].
Init ==
  /\ now = 0
  /\ phase = "starting"
  /\ fileExists \in BOOLEAN
  /\ fileIsArray = TRUE
  /\ store = <<>>
  /\ timers = EmptyBag
  /\ inflight = EmptyBag
  /\ nCreated = 0
  /\ sendCount = [n \in 1..MaxCreates |-> 0]
  /\ expired = {}
  /\ lastOp = Idle

\* ------------------------------------------------------------- actions
\* Each handler that touches the file takes the outcome of its file
\* accesses as inputs: rd is FALSE when the read (or the creation of a
\* missing file) in loadReminders fails, wr is FALSE when the write in
\* saveReminders fails.  The handlers of Spec run with both TRUE.

\* the wall clock advances
Tick ==
  /\ now < MaxTime
  /\ now' = now + 1
  /\ lastOp' = Idle
  /\ UNCHANGED <<phase, fileExists, fileIsArray, store, timers, inflight,
                 nCreated, sendCount, expired>>

\* rescheduleReminders(): load, schedule and keep the future records, save.
\* A loaded value that is not an array makes the for-of loop throw before
\* anything is scheduled or saved.
RescheduleF(rd, wr) ==
  LET reminders == Loaded(rd, fileExists, fileIsArray, store)
      saved == LoadsArray(rd, fileExists, fileIsArray) /\ wr
  IN /\ timers' = IF LoadsArray(rd, fileExists, fileIsArray)
                  THEN rescheduleJobs(timers, reminders, now)
                  ELSE timers
     /\ store' = IF saved THEN validReminders(reminders, now) ELSE store
     /\ fileExists' = (saved \/ ExistsAfterLoad(rd, fileExists))
     /\ fileIsArray' = (saved \/ fileIsArray)
     /\ expired' =
          IF saved
          THEN expired \cup
                 {r.n : r \in Recs(reminders) \ Recs(validReminders(reminders, now))}
          ELSE expired

Reschedule == RescheduleF(TRUE, TRUE)

\* client.on('ready') after the process started.  An exception thrown by
\* the listener escapes into the client library: the process survives it
\* or dies, depending on the runtime.
ReadyF(rd, wr, survives) ==
  /\ phase = "starting"
  /\ phase' = IF LoadsArray(rd, fileExists, fileIsArray) \/ survives
              THEN "running" ELSE "starting"
  /\ RescheduleF(rd, wr)
  /\ lastOp' = IF LoadsArray(rd, fileExists, fileIsArray)
               THEN OpF("ready", IF ~fileExists /\ rd THEN FileCreated ELSE NoId,
                        0, rd)
               ELSE OpF("readyThrew", NoId, 0, rd)
  /\ UNCHANGED <<now, inflight, nCreated, sendCount>>

Ready == ReadyF(TRUE, TRUE, TRUE)

\* the client emits 'ready' once more in the same process
ReadyAgain ==
  /\ phase = "running"
  /\ BagCardinality(timers) + Len(store) <= MaxTimers
  /\ Reschedule
  /\ lastOp' = Op("readyAgain", NoId, 0)
  /\ UNCHANGED <<now, phase, inflight, nCreated, sendCount>>

\* handleCommand, the "[date] [reminder text]" form.  The job is scheduled
\* before the file is loaded; reminders.push throws on a loaded value that
\* is not an array and the catch block replies with the apology.  The early
\* returns touch no file, so no file access of theirs can fail.
CommandF(chatId, cmd, rd, wr) ==
  /\ phase = "running"
  /\ LET o == Outcome(cmd, now)
         n == nCreated + 1
         pushed == o = "Created" /\ LoadsArray(rd, fileExists, fileIsArray)
         saved == pushed /\ wr
     IN /\ o = "Created" => nCreated < MaxCreates
        /\ o # "Created" => rd /\ wr
        /\ timers' = TimersAfterCommand(timers, chatId, cmd, n, now)
        /\ store' = IF o = "Created" /\ ~saved
                    THEN store
                    ELSE StoreAfterCommand(fileExists,
                           Loaded(rd, fileExists, fileIsArray, store),
                           chatId, cmd, n, now)
        /\ fileExists' = IF o = "Created"
                         THEN saved \/ ExistsAfterLoad(rd, fileExists)
                         ELSE fileExists
        /\ fileIsArray' = (saved \/ fileIsArray)
        /\ nCreated' = IF o = "Created" THEN n ELSE nCreated
        /\ lastOp' = IF o = "Created" /\ ~pushed
                     THEN OpF("Error", NoId, n, rd)
                     ELSE OpF(o, NoId, IF o = "Created" THEN n ELSE 0,
                              o = "Created" => rd)
  /\ UNCHANGED <<now, phase, inflight, sendCount, expired>>

Command(chatId, cmd) == CommandF(chatId, cmd, TRUE, TRUE)

\* handleCommand, "list reminders": listReminders is called outside the try
\* block, so an exception it throws leaves the handler
ListF(chatId, rd) ==
  /\ phase = "running"
  /\ fileExists' = ExistsAfterLoad(rd, fileExists)
  /\ lastOp' = IF LoadsArray(rd, fileExists, fileIsArray)
               THEN ListOp(chatId,
                      listReminders(Loaded(rd, fileExists, fileIsArray, store),
                                    chatId), rd)
               ELSE OpF("listThrew", NoId, 0, rd)
  /\ UNCHANGED <<now, phase, fileIsArray, store, timers, inflight,
                 nCreated, sendCount, expired>>

List(chatId) == ListF(chatId, TRUE)

\* a job's invocation runs: the callback logs and calls client.sendMessage,
\* then waits for it
TimerFire(reg) ==
  /\ phase = "running"
  /\ BagIn(reg, timers)
  /\ now >= reg.date
  /\ timers' = timers (-) SetToBag({reg})
  /\ inflight' = inflight (+) SetToBag({reg})
  /\ sendCount' = [sendCount EXCEPT ![reg.n] = @ + 1]
  /\ lastOp' = Idle
  /\ UNCHANGED <<now, phase, fileExists, fileIsArray, store, nCreated, expired>>

\* sendMessage resolved: removeReminder(jobId).  reminders.filter throws on
\* a loaded value that is not an array; the callback's catch block logs it.
SendResolvedF(reg, rd, wr) ==
  /\ phase = "running"
  /\ BagIn(reg, inflight)
  /\ inflight' = inflight (-) SetToBag({reg})
  /\ LET saved == LoadsArray(rd, fileExists, fileIsArray) /\ wr
     IN /\ store' = IF saved
                    THEN WithoutId(Loaded(rd, fileExists, fileIsArray, store),
                                   reg.id)
                    ELSE store
        /\ fileExists' = (saved \/ ExistsAfterLoad(rd, fileExists))
        /\ fileIsArray' = (saved \/ fileIsArray)
  /\ lastOp' = IF LoadsArray(rd, fileExists, fileIsArray)
               THEN OpF("sendResolved", reg.id, reg.n, rd)
               ELSE OpF("removeThrew", reg.id, reg.n, rd)
  /\ UNCHANGED <<now, phase, timers, nCreated, sendCount, expired>>

SendResolved(reg) == SendResolvedF(reg, TRUE, TRUE)

\* sendMessage rejected: the catch block logs
SendRejected(reg) ==
  /\ phase = "running"
  /\ BagIn(reg, inflight)
  /\ inflight' = inflight (-) SetToBag({reg})
  /\ lastOp' = Op("sendRejected", reg.id, reg.n)
  /\ UNCHANGED <<now, phase, fileExists, fileIsArray, store, timers, nCreated,
                 sendCount, expired>>

\* the process exits and is started again: jobs and pending callbacks are
\* gone, the file stays
Restart ==
  /\ phase = "running"
  /\ phase' = "starting"
  /\ timers' = EmptyBag
  /\ inflight' = EmptyBag
  /\ lastOp' = Idle
  /\ UNCHANGED <<now, fileExists, fileIsArray, store, nCreated, sendCount, expired>>

\* somebody replaces the content of reminders.json by JSON that is not an
\* array (say {})
FileEdited ==
  /\ fileExists
  /\ fileIsArray
  /\ fileIsArray' = FALSE
  /\ store' = <<>>
  /\ lastOp' = Idle
  /\ UNCHANGED <<now, phase, fileExists, timers, inflight, nCreated,
                 sendCount, expired>>

\* somebody deletes reminders.json
FileDeleted ==
  /\ fileExists
  /\ fileExists' = FALSE
  /\ fileIsArray' = TRUE
  /\ store' = <<>>
  /\ lastOp' = Idle
  /\ UNCHANGED <<now, phase, timers, inflight, nCreated, sendCount, expired>>

AllRegs == BagToSet(timers) \cup BagToSet(inflight)

Next ==
  \/ Tick
  \/ Ready
  \/ \E c \in Chats, cmd \in Commands : Command(c, cmd)
  \/ \E reg \in AllRegs : TimerFire(reg)
  \/ \E reg \in AllRegs : SendResolved(reg)
  \/ \E reg \in AllRegs : SendRejected(reg)
  \/ Restart

Spec == Init /\ [][Next]_vars

\* The event loop runs a due job and settles a pending send; the clock
\* advances.  Nothing obliges the process to stay up.
Fairness ==
  /\ WF_vars(Tick)
  /\ WF_vars(\E reg \in AllRegs : TimerFire(reg))
  /\ WF_vars(\E reg \in AllRegs : SendResolved(reg) \/ SendRejected(reg))

LiveSpec == Init /\ [][Next]_vars /\ Fairness

\* the same program when the client may emit 'ready' again while running
NextReady == Next \/ ReadyAgain

SpecReady == Init /\ [][NextReady]_vars

\* the same program with the "list reminders" command
NextList == Next \/ \E c \in Chats : List(c)

SpecList == Init /\ [][NextList]_vars

\* the create path alone, for commands that name any instant of a day
NextFire ==
  \/ Tick
  \/ Ready
  \/ \E c \in Chats, cmd \in CommandsAnyTime : Command(c, cmd)

SpecFire == Init /\ [][NextFire]_vars

\* the program with failing file accesses and a file that is edited or
\* deleted behind its back
NextIO ==
  \/ Tick
  \/ \E rd, wr, survives \in BOOLEAN : ReadyF(rd, wr, survives)
  \/ \E c \in Chats, cmd \in Commands, rd, wr \in BOOLEAN :
        CommandF(c, cmd, rd, wr)
  \/ \E c \in Chats, rd \in BOOLEAN : ListF(c, rd)
  \/ \E reg \in AllRegs : TimerFire(reg)
  \/ \E reg \in AllRegs, rd, wr \in BOOLEAN : SendResolvedF(reg, rd, wr)
  \/ \E reg \in AllRegs : SendRejected(reg)
  \/ Restart
  \/ FileEdited
  \/ FileDeleted

SpecIO == Init /\ [][NextIO]_vars

\* =============================================================== claims

\* C1: when a job callback has finished, whether client.sendMessage
\* resolved or rejected, no record with the job's id is left in the file.
C1_RemovedWhateverTheSend ==
  lastOp.op \in {"sendResolved", "sendRejected"} => lastOp.id \notin StoreIds

\* C2: outside a create step and outside a fire-and-remove step, the ids
\* with a pending job are exactly the ids of the records in the file.
C2_TimersMatchStore ==
  (phase = "running" /\ inflight = EmptyBag) => TimerIds = StoreIds

\* C3: client.sendMessage is called at most once for every reminder a
\* create command accepted, over creates, firings, restarts and
\* reschedulings.
C3_AtMostOnce == \A n \in 1..MaxCreates : sendCount[n] <= 1

\* C3 witness: a reminder whose send was called, whose record was still in
\* the file at the next start and was dropped there, with the process
\* running again.
C3_Witness ==
  \E n \in 1..MaxCreates :
     sendCount[n] = 1 /\ n \in expired /\ phase = "running"

\* C4: no two records of the file have the same id.
C4_UniqueIds ==
  \A i, j \in 1..Len(store) : store[i].id = store[j].id => i = j

\* C5: the record a create command has just added has remindAt strictly
\* after the instant of the command.
C5_StrictlyFuture ==
  lastOp.op = "Created" => Last(store).remindAt > now

\* C6: a command answered with the no-date, the no-subject or the too-soon
\* reply changes neither the file nor the pending jobs.
C6_FailureChangesNothing ==
  [][lastOp'.op \in {"ParseFailure", "MissingSubject", "Rejected"}
       => /\ store' = store
          /\ fileExists' = fileExists
          /\ timers' = timers]_vars

\* C6 witness: a too-soon reply given while a record is stored and a job
\* is pending.
C6_Witness ==
  lastOp.op = "Rejected" /\ store # <<>> /\ timers # EmptyBag

\* C7: the rescheduling at startup drops every stored record whose remindAt
\* is at or before the current instant, registers no job for it, and its
\* send is never called afterwards.
C7_PastDropped ==
  [][/\ (phase = "starting" /\ phase' = "running")
          => \A r \in Recs(store) :
                r.remindAt <= now
                  => r.n \in expired' /\ r.n \notin StoreNs' /\ r.n \notin TimerNs'
     /\ \A n \in expired :
          /\ sendCount'[n] = sendCount[n]
          /\ n \notin StoreNs' /\ n \notin TimerNs']_vars

\* C7 witness: a record was dropped at startup without ever being sent, and
\* the process has been running and handling timers since.
C7_Witness ==
  \E n \in expired, m \in 1..MaxCreates :
     sendCount[n] = 0 /\ phase = "running" /\ sendCount[m] = 1 /\ m \notin expired

C9_Idempotent ==
  [][(lastOp.op \in {"ready", "readyAgain"} /\ lastOp'.op = "readyAgain")
       => store' = store /\ timers' = timers]_vars

\* C10: every record added by a create whose job has not fired, and that no
\* startup dropped, is in the file; a record that is gone from the file
\* stays gone.
C10_NoLostUpdate ==
  /\ [](\A n \in 1..nCreated :
          (sendCount[n] = 0 /\ n \notin expired) => n \in StoreNs)
  /\ [][\A n \in 1..nCreated : n \notin StoreNs => n \notin StoreNs']_vars

\* the calendar day and the time of day of an instant
DayOf(t) == t \div TicksPerDay
TodOf(t) == t % TicksPerDay

\* C11: "list reminders" replies with exactly the stored records of the
\* chat, each once, in ascending order of remindAt, and changes neither the
\* records of the file nor the pending jobs.
C11_ListExact ==
  /\ [](lastOp.op = "list"
          => LET l == lastOp.reply
             IN /\ Recs(l) = {r \in Recs(store) : r.chatId = lastOp.chatId}
                /\ Cardinality(Recs(l)) = Len(l)
                /\ \A i, j \in 1..Len(l) :
                      i < j => l[i].remindAt <= l[j].remindAt)
  /\ [][lastOp'.op = "list" => store' = store /\ timers' = timers]_vars

\* C11 witness: a listing of two reminders in which the one created later
\* comes first.
C11_Witness ==
  /\ lastOp.op = "list"
  /\ Len(lastOp.reply) = 2
  /\ lastOp.reply[1].n > lastOp.reply[2].n
  /\ lastOp.reply[1].remindAt < lastOp.reply[2].remindAt

\* C12: the remindAt the create path computes is 09:00 of the calendar day
\* before the day of the event date, whatever its time of day.
C12_NineAMDayBefore ==
  /\ \A cmd \in CommandsAnyTime :
        /\ DayOf(remindAtOf(cmd.date)) = DayOf(cmd.date) - 1
        /\ TodOf(remindAtOf(cmd.date)) = NineAM
  /\ \A r \in Recs(store) :
        /\ DayOf(r.remindAt) = DayOf(r.originalDate) - 1
        /\ TodOf(r.remindAt) = NineAM

\* C12 witness: a stored reminder whose event date is not at the start of
\* its day.
C12_Witness ==
  \E r \in Recs(store) : TodOf(r.originalDate) = TicksPerDay - 1

\* C13: when reminders.json is missing at startup, the 'ready' handler ends
\* without an exception, the file exists afterwards and holds [], and no
\* job is registered.
C13_MissingFileAtStartup ==
  [][(phase = "starting" /\ ~fileExists /\ lastOp'.op # "")
       => /\ lastOp'.op = "ready"
          /\ phase' = "running"
          /\ fileExists' /\ fileIsArray' /\ store' = <<>>
          /\ timers' = EmptyBag]_vars

\* C13 witness: the 'ready' handler has just run on a missing file.
C13_Witness ==
  /\ lastOp.op = "ready" /\ lastOp.id = FileCreated
  /\ fileExists /\ store = <<>> /\ timers = EmptyBag

\* C14: no exception leaves the command handler, on the list path as on
\* the create path, whatever reminders.json holds.
C14_NoExceptionEscapes == lastOp.op # "listThrew"

\* C15: there is at most one pending job per id, and no reminder's
\* callback runs twice.
C15_OneTimerPerId ==
  /\ \A r1, r2 \in BagToSet(timers) :
        r1.id = r2.id => r1 = r2 /\ CopiesIn(r1, timers) = 1
  /\ \A n \in 1..MaxCreates : sendCount[n] <= 1

\* C16: the end of one reminder's callback leaves in the file, unchanged,
\* every record of another reminder that has not fired.
C16_OnlyOwnRecordRemoved ==
  [][lastOp'.op \in {"sendResolved", "sendRejected"}
       => \A r \in Recs(store) :
             (r.n # lastOp'.n /\ sendCount[r.n] = 0) => r \in Recs(store')]_vars

\* C17: every reminder "list reminders" replies with has remindAt after the
\* instant of the request and has not had its send called.
C17_ListOnlyUpcoming ==
  lastOp.op = "list"
    => \A r \in Recs(lastOp.reply) : r.remindAt > now /\ sendCount[r.n] = 0

\* C18: when the create path has replied with the confirmation, the
\* reminder's record is in the file and a job for its id is pending.
C18_ConfirmedIsStored ==
  lastOp.op = "Created"
    => /\ lastOp.n \in StoreNs
       /\ \E r \in Recs(store) : r.n = lastOp.n /\ r.id \in TimerIds

\* C19: a handler whose read of reminders.json failed leaves in the file
\* every record it held, except the record the handler is there to remove
\* (the fired reminder's, or at startup the past ones).
C19_FailedLoadLosesNothing ==
  [][~lastOp'.readOk
       => \A r \in Recs(store) :
             \/ r \in Recs(store')
             \/ lastOp'.op = "sendResolved" /\ r.id = lastOp'.id
             \/ lastOp'.op = "ready" /\ r.remindAt <= now]_vars

TypeOK ==
  /\ now \in 0..MaxTime
  /\ phase \in {"starting", "running"}
  /\ nCreated \in 0..MaxCreates
====
